---- MODULE Spec2Model ----
(***************************************************************************)
(* Model of code/parallel_quick_sort_stack.hpp: the mutex-guarded          *)
(* ConcurrentStack and the sorter that publishes the low partition of each *)
(* quicksort step as a chunk on that stack, spawns worker threads and      *)
(* pops chunks while it waits for the future of its own chunk.             *)
(*                                                                         *)
(* Thread 0 is the thread that calls parallel_quick_sort; threads          *)
(* 1..MaxWorkers are the std::thread objects do_sort constructs.  Every    *)
(* thread has a call stack of frames (last element = innermost call).      *)
(* One action is one step between two accesses to shared state; accesses   *)
(* to the stack are atomic (they run under m_), accesses to the vector     *)
(* `threads` are not (it has no lock), so size(), the read of the end      *)
(* position and the write of emplace_back are separate steps.              *)
(***************************************************************************)
EXTENDS Integers, Sequences, FiniteSets, TLC

\* ---------------------------------------------------------------- bounds
MaxLen == 3
MaxVal == 2
MaxHC  == 3
MaxOps == 3          \* calls made on the directly used stack
NumClients == 2      \* threads calling it

Values     == 1..MaxVal
MaxWorkers == MaxLen          \* one spawn at most per non-empty do_sort
MaxChunks  == MaxLen          \* one chunk per non-empty do_sort
Caller     == 0
Workers    == 1..MaxWorkers
Threads    == 0..MaxWorkers
ChunkIds   == 1..MaxChunks

\* `unsigned` is 32 bits wide.  A value is kept as <<high, low>>, two
\* 16-bit halves, so that 2^32 - 1 is representable.
Half == 65536
Unsigned(n) == <<(n \div Half) % Half, n % Half>>

\* a - b in unsigned arithmetic (modulo 2^32)
USub(a, b) ==
  LET borrow == IF a[2] < b[2] THEN 1 ELSE 0
  IN  <<(a[1] - b[1] - borrow) % Half, (a[2] - b[2]) % Half>>

\* n < u and n <= u for a container size n (below 2^16) and an unsigned u
SizeLess(n, u) == u[1] > 0 \/ n < u[2]
SizeLeq(n, u)  == u[1] > 0 \/ n <= u[2]

Clients    == 1..NumClients

Lists == UNION { [1..n -> Values] : n \in 0..MaxLen }

VARIABLES
  input,                \* the list handed to parallel_quick_sort
  hardware_concurrency, \* what std::thread::hardware_concurrency() reports
  session,              \* "none", "live" or "destroyed": the sorter s
  chunks,               \* sorter::chunks, the stack of chunk ids (top = last)
  chunk,                \* the chunk_to_sort objects, by id
  nchunks,              \* number of chunk_to_sort objects created
  threads,              \* sorter::threads: [slot, size]
  max_thread_count,     \* sorter::max_thread_count
  end_of_data,          \* sorter::end_of_data
  wstate,               \* per worker: "unborn", "running", "exited"
  joins,                \* per worker: number of join() calls on its handle
  stack,                \* per thread: its call stack
  exc,                  \* exception being unwound on the calling thread
  outcome,              \* "running", "returned", "threw", "aborted"
  result,               \* the list parallel_quick_sort returned
  error,                \* the exception that left the call or ended the process
  \* a ConcurrentStack<int> used directly by several client threads
  s_,                   \* ConcurrentStack::s_ (top = last)
  m_,                   \* ConcurrentStack::m_: 0 when free, else its holder
  hpc,                  \* per client thread: where it is in its call
  cur,                  \* per client thread: the index in ops of its call
  loc,                  \* per client thread: the local res of pop (l.44)
  ops,                  \* the calls made so far, with invocation and response times
  clock                 \* counts invocations and responses

sorterVars == <<input, hardware_concurrency, session, chunks, chunk, nchunks,
                threads, max_thread_count, end_of_data, wstate, joins, stack,
                exc, outcome, result, error>>

stackVars == <<s_, m_, hpc, cur, loc, ops, clock>>

vars == <<sorterVars, stackVars>>

\* ------------------------------------------------------- ConcurrentStack
push_bottom(s, n) == <<n>> \o s

\* push (l.29-32): under m_, s_.push(n)
push(s, n) == Append(s, n)

\* empty (l.34-37)
empty(s) == s = <<>>

\* the element pop hands out (l.44): s_.top()
top(s) == s[Len(s)]

pop_keeps_top(s) == s

\* what pop leaves in s_ (l.45): s_.pop()
pop(s) == SubSeq(s, 1, Len(s) - 1)

\* ------------------------------------------------------------- list help
RECURSIVE SelectLessEq(_, _)
SelectLessEq(v, x) ==
  IF v = <<>> THEN <<>>
  ELSE IF x < Head(v) THEN SelectLessEq(Tail(v), x)
       ELSE <<Head(v)>> \o SelectLessEq(Tail(v), x)

\* the elements of v for which val < firstVal holds, in v's order
RECURSIVE SelectLess(_, _)
SelectLess(v, x) ==
  IF v = <<>> THEN <<>>
  ELSE IF Head(v) < x THEN <<Head(v)>> \o SelectLess(Tail(v), x)
       ELSE SelectLess(Tail(v), x)

RECURSIVE SelectGreater(_, _)
SelectGreater(v, x) ==
  IF v = <<>> THEN <<>>
  ELSE IF x < Head(v) THEN <<Head(v)>> \o SelectGreater(Tail(v), x)
       ELSE SelectGreater(Tail(v), x)

\* the elements of v for which val < firstVal is false, in v's order
RECURSIVE SelectNotLess(_, _)
SelectNotLess(v, x) ==
  IF v = <<>> THEN <<>>
  ELSE IF Head(v) < x THEN SelectNotLess(Tail(v), x)
       ELSE <<Head(v)>> \o SelectNotLess(Tail(v), x)

\* every arrangement of the elements of s
Orders(s) ==
  LET n == Len(s)
      bij == { f \in [1..n -> 1..n] : \A i, j \in 1..n : f[i] = f[j] => i = j }
  IN { [i \in 1..n |-> s[f[i]]] : f \in bij }

\* std::partition(v.begin(), v.end(), val < firstVal) (l.100-101): the
\* elements for which the predicate holds come first; the order inside the
\* two groups is left to the library, so every order is possible.
\* A result is <<low, rest>>: low is [v.begin(), it), rest is [it, v.end()).
partition(v, firstVal) ==
  { <<lo, hi>> : lo \in Orders(SelectLess(v, firstVal)),
                 hi \in Orders(SelectNotLess(v, firstVal)) }

\* res.splice(res.end(), r) (l.110)
splice_end(res, r) == res \o r

low_at_end(res, low) == res \o low

\* res.splice(res.begin(), l.get()) (l.114)
splice_begin(res, low) == low \o res

\* ---------------------------------------------------------------- frames
Frame(fn, pc) ==
  [fn |-> fn, pc |-> pc, v |-> <<>>, res |-> <<>>, l |-> 0, c |-> 0,
   i |-> 0, n |-> 0]

Top(t)   == stack[t][Len(stack[t])]
Below(t) == SubSeq(stack[t], 1, Len(stack[t]) - 1)
At(t, fn, pc) ==
  /\ stack[t] # <<>>
  /\ Top(t).fn = fn
  /\ Top(t).pc = pc

SetTop(st, f) == [st EXCEPT ![Len(st)] = f]

NoChunk ==
  [data |-> <<>>, state |-> "Unpartitioned", value |-> <<>>, pusher |-> -1,
   poppers |-> <<>>, setters |-> <<>>, getters |-> <<>>, broken |-> FALSE]

Alive == outcome = "running"

\* thread t is executing code (not unwinding an exception)
Running(t) == t = Caller => exc = "none"

\* ------------------------------------------------------------------ Init
Init ==
  /\ input \in Lists
  /\ hardware_concurrency \in 0..MaxHC
  /\ session = "none"
  /\ chunks = <<>>
  /\ chunk = [c \in ChunkIds |-> NoChunk]
  /\ nchunks = 0
  /\ threads = [slot |-> [k \in 1..MaxWorkers |-> 0], size |-> 0]
  /\ max_thread_count = Unsigned(0)
  /\ end_of_data = FALSE
  /\ wstate = [w \in Workers |-> "unborn"]
  /\ joins = [w \in Workers |-> 0]
  /\ stack = [t \in Threads |->
                IF t = Caller
                THEN <<[Frame("parallel_quick_sort", "enter") EXCEPT !.v = input]>>
                ELSE <<>>]
  /\ exc = "none"
  /\ outcome = "running"
  /\ result = <<>>
  /\ error = "none"
  /\ s_ = <<>>
  /\ m_ = 0
  /\ hpc = [t \in Clients |-> "idle"]
  /\ cur = [t \in Clients |-> 0]
  /\ loc = [t \in Clients |-> 0]
  /\ ops = <<>>
  /\ clock = 0

\* ------------------------------------------------- exceptions, returns
\* An exception leaves the function that raised it.  On the calling thread
\* it unwinds towards parallel_quick_sort; sort_thread has no handler, so on
\* a worker it leaves the thread function and std::terminate ends the
\* process.
Throw(t, e) ==
  IF t = Caller
  THEN /\ exc' = e
       /\ UNCHANGED <<outcome, error>>
  ELSE /\ outcome' = "aborted"
       /\ error' = e
       /\ UNCHANGED exc

\* promise.set_value (l.119)
set_value(ch, c, rv, t) ==
  [ch EXCEPT ![c].state = "Fulfilled",
             ![c].value = IF ch[c].state = "Fulfilled" THEN @ ELSE rv,
             ![c].setters = Append(@, t)]

\* do_sort returns rv (l.95, l.115) to the call it was made from: the
\* recursive call of l.109, sort_chunk (l.119) or parallel_quick_sort
\* (l.136).  ch is the chunk table the step has produced so far.
Return(t, rv, ch) ==
  LET st    == Below(t)
      under == st[Len(st)]
      st2   == SubSeq(st, 1, Len(st) - 1)
  IN  CASE under.fn = "do_sort" ->
             \* l.109-110: r = do_sort(v); res.splice(res.end(), r)
             /\ stack' = [stack EXCEPT ![t] =
                   SetTop(st, [under EXCEPT !.res = splice_end(under.res, rv),
                                            !.pc = "wait"])]
             /\ chunk' = ch
        [] under.fn = "sort_chunk" ->
             \* l.119, then back in try_sort_chunk's caller (l.112 or l.124)
             /\ chunk' = set_value(ch, under.c, rv, t)
             /\ stack' = [stack EXCEPT ![t] =
                   SetTop(st2, [st2[Len(st2)] EXCEPT !.pc =
                      IF st2[Len(st2)].fn = "sort_thread" THEN "loop"
                      ELSE "wait"])]
        [] under.fn = "parallel_quick_sort" ->
             \* l.136: the return value is built, then s is destroyed
             /\ stack' = [stack EXCEPT ![t] =
                   SetTop(st, [under EXCEPT !.res = rv, !.pc = "dtor"])]
             /\ chunk' = ch

\* the call do_sort(v) made from the top frame of st
Call(st, pc, v) ==
  Append(SetTop(st, [st[Len(st)] EXCEPT !.pc = pc]),
         [Frame("do_sort", "enter") EXCEPT !.v = v])

\* ------------------------------------------------- parallel_quick_sort
never_returns_early(v) == FALSE

\* l.132: if (v.empty()) return v;
returns_early(v) == empty(v)

\* l.131-136: empty input returns at once; otherwise sorter s is built
\* (l.75-77) and s.do_sort(v) is called.
PqsEnter ==
  /\ Alive
  /\ At(Caller, "parallel_quick_sort", "enter")
  /\ IF returns_early(Top(Caller).v)
     THEN /\ outcome' = "returned"
          /\ result' = Top(Caller).v
          /\ stack' = [stack EXCEPT ![Caller] = <<>>]
          /\ UNCHANGED <<session, max_thread_count, end_of_data>>
     ELSE /\ session' = "live"
          /\ max_thread_count' = USub(Unsigned(hardware_concurrency), Unsigned(1))
          /\ end_of_data' = FALSE
          /\ stack' = [stack EXCEPT ![Caller] =
                          Call(stack[Caller], "call", Top(Caller).v)]
          /\ UNCHANGED <<outcome, result>>
  /\ UNCHANGED <<input, hardware_concurrency, chunks, chunk, nchunks, threads,
                 wstate, joins, exc, error>>
  /\ UNCHANGED stackVars

\* ------------------------------------------------------- sorter::do_sort
short_list(v) == Len(v) <= 1

\* l.94: if (v.empty()) return v;
base_case(v) == empty(v)

\* l.94-105: base case, or pivot, partition, chunk low, future, push
DoSortEnter(t) ==
  /\ Alive
  /\ Running(t)
  /\ At(t, "do_sort", "enter")
  /\ LET f == Top(t) IN
     IF base_case(f.v)
     THEN /\ Return(t, f.v, chunk)
          /\ UNCHANGED <<chunks, nchunks>>
     ELSE \E p \in partition(Tail(f.v), Head(f.v)) :
            LET c == nchunks + 1 IN
            /\ nchunks' = c
            /\ chunk' = [chunk EXCEPT ![c] =
                  [NoChunk EXCEPT !.data = p[1], !.state = "Pushed",
                                  !.pusher = t]]
            /\ chunks' = push(chunks, c)
            /\ stack' = [stack EXCEPT ![t] =
                  SetTop(stack[t], [f EXCEPT !.res = <<Head(f.v)>>,
                                             !.v = p[2], !.l = c,
                                             !.pc = "size"])]
  /\ UNCHANGED <<input, hardware_concurrency, session, threads,
                 max_thread_count, end_of_data, wstate, joins, exc, outcome,
                 result, error>>
  /\ UNCHANGED stackVars

\* l.106: threads.size() < max_thread_count, read without a lock;
\* when false, l.109 calls do_sort(v)
DoSortSize(t) ==
  /\ Alive
  /\ Running(t)
  /\ At(t, "do_sort", "size")
  /\ stack' = [stack EXCEPT ![t] =
        IF SizeLess(threads.size, max_thread_count)
        THEN SetTop(stack[t], [Top(t) EXCEPT !.pc = "emplace"])
        ELSE Call(stack[t], "rec", Top(t).v)]
  /\ UNCHANGED <<input, hardware_concurrency, session, chunks, chunk, nchunks,
                 threads, max_thread_count, end_of_data, wstate, joins, exc,
                 outcome, result, error>>
  /\ UNCHANGED stackVars

\* l.107, first half of emplace_back: read the end position of the vector
EmplaceRead(t) ==
  /\ Alive
  /\ Running(t)
  /\ At(t, "do_sort", "emplace")
  /\ stack' = [stack EXCEPT ![t] =
        SetTop(stack[t], [Top(t) EXCEPT !.i = threads.size,
                                        !.pc = "construct"])]
  /\ UNCHANGED <<input, hardware_concurrency, session, chunks, chunk, nchunks,
                 threads, max_thread_count, end_of_data, wstate, joins, exc,
                 outcome, result, error>>
  /\ UNCHANGED stackVars

\* the worker a new std::thread runs
NextWorker == Cardinality({w \in Workers : wstate[w] # "unborn"}) + 1

\* l.107, second half of emplace_back: construct the std::thread (which
\* starts sort_thread) at the position read and store the new end; then
\* l.109 calls do_sort(v)
EmplaceConstruct(t) ==
  /\ Alive
  /\ Running(t)
  /\ At(t, "do_sort", "construct")
  /\ LET w == NextWorker
         k == Top(t).i + 1
     IN  /\ threads' = [slot |-> [threads.slot EXCEPT ![k] = w], size |-> k]
         /\ wstate' = [wstate EXCEPT ![w] = "running"]
         /\ stack' = [stack EXCEPT
                        ![t] = Call(stack[t], "rec", Top(t).v),
                        ![w] = <<Frame("sort_thread", "loop")>>]
  /\ UNCHANGED <<input, hardware_concurrency, session, chunks, chunk, nchunks,
                 max_thread_count, end_of_data, joins, exc, outcome, result,
                 error>>
  /\ UNCHANGED stackVars

keeps_polling == "wait"

\* l.111-113: while the future is not ready the loop body is
\* try_sort_chunk(), after which the future is polled again
while_not_ready == "try"

taken_unready(c) == TRUE

\* l.111: wait_for(0) reports ready because the promise holds its value
has_value(c) == chunk[c].state = "Fulfilled"

\* l.111 and l.114-115: the poll of the future; when it is ready, get() and
\* the final splice and return.  A future whose promise was destroyed
\* unfulfilled is ready too, and get() throws std::future_error.
FutureWait(t) ==
  /\ Alive
  /\ Running(t)
  /\ At(t, "do_sort", "wait")
  /\ LET f == Top(t)
         c == f.l
     IN  IF has_value(c)
         THEN /\ Return(t, splice_begin(f.res, chunk[c].value),
                        [chunk EXCEPT ![c].getters = Append(@, t)])
              /\ UNCHANGED <<exc, outcome, error>>
         ELSE IF chunk[c].broken
         THEN /\ Throw(t, "broken_promise")
              /\ UNCHANGED <<stack, chunk>>
         ELSE /\ stack' = [stack EXCEPT ![t] =
                              SetTop(stack[t], [f EXCEPT !.pc = while_not_ready])]
              /\ UNCHANGED <<chunk, exc, outcome, error>>
  /\ UNCHANGED <<input, hardware_concurrency, session, chunks, nchunks,
                 threads, max_thread_count, end_of_data, wstate, joins,
                 result>>
  /\ UNCHANGED stackVars

\* ------------------------------------------------ sorter::try_sort_chunk
\* l.87-89 (called from l.112 and l.124): chunks.pop() throws EmptyStack on
\* an empty stack (l.41-43); otherwise the popped chunk goes to sort_chunk,
\* which calls do_sort(chunk->data) (l.119)
TrySortChunk(t) ==
  /\ Alive
  /\ Running(t)
  /\ \/ At(t, "do_sort", "try")
     \/ At(t, "sort_thread", "try")
  /\ IF empty(chunks)
     THEN /\ Throw(t, "EmptyStack")
          /\ UNCHANGED <<chunks, chunk, stack>>
     ELSE LET c == top(chunks) IN
          /\ chunks' = pop(chunks)
          /\ chunk' = [chunk EXCEPT ![c].state = "InProgress",
                                    ![c].poppers = Append(@, t)]
          /\ stack' = [stack EXCEPT ![t] =
                Call(Append(SetTop(stack[t], [Top(t) EXCEPT !.pc = "run"]),
                            [Frame("sort_chunk", "run") EXCEPT !.c = c]),
                     "run", chunk[c].data)]
          /\ UNCHANGED <<exc, outcome, error>>
  /\ UNCHANGED <<input, hardware_concurrency, session, nchunks, threads,
                 max_thread_count, end_of_data, wstate, joins, result>>
  /\ UNCHANGED stackVars

\* -------------------------------------------------- sorter::sort_thread
\* l.123: the test of end_of_data; l.125 (yield) leads back here
SortThreadLoop(w) ==
  /\ Alive
  /\ w \in Workers
  /\ At(w, "sort_thread", "loop")
  /\ IF end_of_data
     THEN /\ wstate' = [wstate EXCEPT ![w] = "exited"]
          /\ stack' = [stack EXCEPT ![w] = <<>>]
     ELSE /\ stack' = [stack EXCEPT ![w] =
                          SetTop(stack[w], [Top(w) EXCEPT !.pc = "try"])]
          /\ UNCHANGED wstate
  /\ UNCHANGED <<input, hardware_concurrency, session, chunks, chunk, nchunks,
                 threads, max_thread_count, end_of_data, joins, exc, outcome,
                 result, error>>
  /\ UNCHANGED stackVars

\* ------------------------------------------- unwinding, sorter::~sorter
\* An exception on the calling thread destroys the frames it passes.  The
\* shared_ptr of try_sort_chunk (l.87) owns the chunk: destroying it
\* destroys the promise, which leaves its future ready with broken_promise.
Unwind ==
  /\ Alive
  /\ exc # "none"
  /\ stack[Caller] # <<>>
  /\ Top(Caller).fn # "parallel_quick_sort"
  /\ LET f  == Top(Caller)
         st == Below(Caller)
     IN  /\ chunk' = IF f.fn = "sort_chunk"
                     THEN [chunk EXCEPT ![f.c].broken = TRUE]
                     ELSE chunk
         /\ stack' = [stack EXCEPT ![Caller] =
               IF st[Len(st)].fn = "parallel_quick_sort"
               THEN SetTop(st, [st[Len(st)] EXCEPT !.pc = "dtor"])
               ELSE st]
  /\ UNCHANGED <<input, hardware_concurrency, session, chunks, nchunks,
                 threads, max_thread_count, end_of_data, wstate, joins, exc,
                 outcome, result, error>>
  /\ UNCHANGED stackVars

\* l.80, and the begin/end of the range-for of l.81
Dtor ==
  /\ Alive
  /\ At(Caller, "parallel_quick_sort", "dtor")
  /\ end_of_data' = TRUE
  /\ stack' = [stack EXCEPT ![Caller] =
        SetTop(stack[Caller], [Top(Caller) EXCEPT !.i = 1,
                                                  !.n = threads.size,
                                                  !.pc = "join"])]
  /\ UNCHANGED <<input, hardware_concurrency, session, chunks, chunk, nchunks,
                 threads, max_thread_count, wstate, joins, exc, outcome,
                 result, error>>
  /\ UNCHANGED stackVars

\* l.82: x.join() returns once the thread has left sort_thread
Join ==
  /\ Alive
  /\ At(Caller, "parallel_quick_sort", "join")
  /\ Top(Caller).i <= Top(Caller).n
  /\ LET w == threads.slot[Top(Caller).i] IN
     /\ wstate[w] = "exited"
     /\ joins' = [joins EXCEPT ![w] = @ + 1]
  /\ stack' = [stack EXCEPT ![Caller] =
        SetTop(stack[Caller], [Top(Caller) EXCEPT !.i = @ + 1])]
  /\ UNCHANGED <<input, hardware_concurrency, session, chunks, chunk, nchunks,
                 threads, max_thread_count, end_of_data, wstate, exc, outcome,
                 result, error>>
  /\ UNCHANGED stackVars

\* l.84: after the body of ~sorter the members are destroyed; destroying a
\* std::thread that is still joinable calls std::terminate.  Then the call
\* returns its list or lets the exception out.
Destroy ==
  /\ Alive
  /\ At(Caller, "parallel_quick_sort", "join")
  /\ Top(Caller).i > Top(Caller).n
  /\ IF \E k \in 1..threads.size : joins[threads.slot[k]] = 0
     THEN /\ outcome' = "aborted"
          /\ error' = "joinable_thread_destroyed"
          /\ UNCHANGED <<session, result, stack>>
     ELSE /\ session' = "destroyed"
          /\ stack' = [stack EXCEPT ![Caller] = <<>>]
          /\ IF exc = "none"
             THEN /\ outcome' = "returned"
                  /\ result' = Top(Caller).res
                  /\ UNCHANGED error
             ELSE /\ outcome' = "threw"
                  /\ error' = exc
                  /\ UNCHANGED result
  /\ UNCHANGED <<input, hardware_concurrency, chunks, chunk, nchunks, threads,
                 max_thread_count, end_of_data, wstate, joins, exc>>
  /\ UNCHANGED stackVars

Step(t) ==
  \/ DoSortEnter(t)
  \/ DoSortSize(t)
  \/ EmplaceRead(t)
  \/ EmplaceConstruct(t)
  \/ FutureWait(t)
  \/ TrySortChunk(t)
  \/ SortThreadLoop(t)

Next ==
  \/ PqsEnter
  \/ \E t \in Threads : Step(t)
  \/ Unwind
  \/ Dtor
  \/ Join
  \/ Destroy

Spec == Init /\ [][Next]_vars

\* The scheduler lets every thread that can take a step take one.
Fairness ==
  /\ \A t \in Threads : WF_vars(Step(t))
  /\ WF_vars(PqsEnter \/ Unwind \/ Dtor \/ Join \/ Destroy)

FairSpec == Spec /\ Fairness

\* Sessions whose worker cap is 0 or 1
CappedCaps == {Unsigned(0), Unsigned(1)}

InitCapped ==
  /\ Init
  /\ USub(Unsigned(hardware_concurrency), Unsigned(1)) \in CappedCaps

CappedSpec == InitCapped /\ [][Next]_vars /\ Fairness

\* ------------------------------------ ConcurrentStack used directly
\* Client threads call push, pop and empty on one ConcurrentStack<int>.
\* A call is: invocation, then the lock_guard takes m_, then the body runs
\* (pop in two steps: the test and the read of top(), then the removal),
\* then the lock_guard releases m_ as the call returns.
\* what a call hands back: nothing (push), a bool (empty), the popped
\* element, or the EmptyStack exception
Void     == <<"void", 0>>
Bool(b)  == <<"bool", IF b THEN 1 ELSE 0>>
Value(x) == <<"value", x>>
Thrown   == <<"EmptyStack", 0>>

Op(t, op, arg) ==
  [t |-> t, op |-> op, arg |-> arg, inv |-> clock + 1, res |-> 0, val |-> <<"none", 0>>]

Pushes == Cardinality({k \in 1..Len(ops) : ops[k].op = "push"})

\* a client calls push(n), pop() or empty(); n is a fresh tag
Invoke(t) ==
  /\ hpc[t] = "idle"
  /\ Len(ops) < MaxOps
  /\ \E op \in {"push", "pop", "empty"} :
       ops' = Append(ops, Op(t, op, IF op = "push" THEN Pushes + 1 ELSE 0))
  /\ cur' = [cur EXCEPT ![t] = Len(ops) + 1]
  /\ hpc' = [hpc EXCEPT ![t] = "lock"]
  /\ clock' = clock + 1
  /\ UNCHANGED <<s_, m_, loc>>
  /\ UNCHANGED sorterVars

never_waits(m) == TRUE

\* std::lock_guard<std::mutex> l(m_) (l.30, l.35, l.40) goes on when m_ is free
acquirable(m) == m = 0

Lock(t) ==
  /\ hpc[t] = "lock"
  /\ acquirable(m_)
  /\ m_' = t
  /\ hpc' = [hpc EXCEPT ![t] = ops[cur[t]].op]
  /\ UNCHANGED <<s_, cur, loc, ops, clock>>
  /\ UNCHANGED sorterVars

\* the call of client t returns val; its lock_guard releases m_
Respond(t, val) ==
  /\ ops' = [ops EXCEPT ![cur[t]].res = clock + 1, ![cur[t]].val = val]
  /\ clock' = clock + 1
  /\ m_' = 0
  /\ hpc' = [hpc EXCEPT ![t] = "idle"]
  /\ cur' = [cur EXCEPT ![t] = 0]

\* l.31-32
PushBody(t) ==
  /\ hpc[t] = "push"
  /\ s_' = push(s_, ops[cur[t]].arg)
  /\ Respond(t, Void)
  /\ UNCHANGED loc
  /\ UNCHANGED sorterVars

\* l.36-37
EmptyBody(t) ==
  /\ hpc[t] = "empty"
  /\ Respond(t, Bool(empty(s_)))
  /\ UNCHANGED <<s_, loc>>
  /\ UNCHANGED sorterVars

\* l.41-44: throw EmptyStack, or take the value of s_.top()
PopTop(t) ==
  /\ hpc[t] = "pop"
  /\ IF empty(s_)
     THEN /\ Respond(t, Thrown)
          /\ UNCHANGED loc
     ELSE /\ loc' = [loc EXCEPT ![t] = top(s_)]
          /\ hpc' = [hpc EXCEPT ![t] = "remove"]
          /\ UNCHANGED <<m_, cur, ops, clock>>
  /\ UNCHANGED s_
  /\ UNCHANGED sorterVars

\* l.45-47
PopRemove(t) ==
  /\ hpc[t] = "remove"
  /\ s_' = pop(s_)
  /\ Respond(t, Value(loc[t]))
  /\ loc' = [loc EXCEPT ![t] = 0]
  /\ UNCHANGED sorterVars

InitStack ==
  /\ Init
  /\ input = <<>>
  /\ hardware_concurrency = 0

NextStack ==
  \E t \in Clients :
    \/ Invoke(t)
    \/ Lock(t)
    \/ PushBody(t)
    \/ EmptyBody(t)
    \/ PopTop(t)
    \/ PopRemove(t)

StackSpec == InitStack /\ [][NextStack]_vars

\* =================================================================
\* Properties
\* =================================================================
Sorted(s) == \A i \in 1..(Len(s) - 1) : ~(s[i + 1] < s[i])

RECURSIVE Count(_, _)
Count(s, x) ==
  IF s = <<>> THEN 0
  ELSE (IF Head(s) = x THEN 1 ELSE 0) + Count(Tail(s), x)

SameElements(a, b) ==
  /\ Len(a) = Len(b)
  /\ \A x \in Values : Count(a, x) = Count(b, x)

Spawned == {w \in Workers : wstate[w] # "unborn"}

SetByWorker(c) ==
  /\ chunk[c].setters # <<>>
  /\ chunk[c].setters[1] \in Workers

SetByCaller(c) ==
  /\ chunk[c].setters # <<>>
  /\ chunk[c].setters[1] = Caller

\* C1: a list returned by parallel_quick_sort is non-decreasing: no adjacent
\* pair (a, b) of it has b < a, whatever the interleaving of the threads.
C1_ReturnedListIsOrdered ==
  outcome = "returned" => Sorted(result)

\* an unsorted input of full length came back, part of it sorted by a worker
C1_Witness ==
  /\ outcome = "returned"
  /\ Len(input) = MaxLen
  /\ ~Sorted(input)
  /\ \E c \in ChunkIds : SetByWorker(c) /\ chunk[c].data # <<>>

\* C2: a list returned by parallel_quick_sort holds exactly the elements of
\* the input, each as often as the input does.
C2_ReturnedListIsPermutation ==
  outcome = "returned" => SameElements(result, input)

\* an input with a repeated element came back after a worker fulfilled a chunk
C2_Witness ==
  /\ outcome = "returned"
  /\ \E x \in Values : Count(input, x) >= 2
  /\ \E c \in ChunkIds : SetByWorker(c)
  /\ \E c \in ChunkIds : SetByCaller(c)

\* C3: with a worker cap of 0 or 1 every call ends: under fair scheduling no
\* behaviour stays for ever in a state where the call is still running, so no
\* state has all threads waiting on futures nobody will fulfil.
C3_CappedSortTerminates ==
  <>(outcome # "running")

\* the calling thread found its future not ready, popped a chunk itself and
\* the call returned, with more chunks than threads
C3_Witness ==
  /\ outcome = "returned"
  /\ max_thread_count \in CappedCaps
  /\ nchunks > Cardinality(Spawned) + 1
  /\ \E c \in ChunkIds : SetByCaller(c)

\* C4: EmptyStack is never raised during a sort.
C4_EmptyStackNeverRaised ==
  /\ exc # "EmptyStack"
  /\ error # "EmptyStack"

\* C5: every chunk pushed on the stack is eventually popped and its promise
\* fulfilled; so once the program has stopped (the call has ended or the
\* process was terminated) no chunk is left Pushed or InProgress.
C5_NoPushedChunkLeftUnfulfilled ==
  outcome # "running" =>
    \A c \in ChunkIds : chunk[c].state \notin {"Pushed", "InProgress"}

\* the moves of a chunk's state
ChunkMoves ==
  { <<"Unpartitioned", "Pushed">>, <<"Pushed", "InProgress">>,
    <<"InProgress", "Fulfilled">> }

\* the sort_chunk calls in progress on chunk c
Processing(c) ==
  UNION { { <<t, k>> : k \in { j \in DOMAIN stack[t] :
                                  /\ stack[t][j].fn = "sort_chunk"
                                  /\ stack[t][j].c = c } } : t \in Threads }

\* one popper, one set_value by the popper, one sort_chunk call per chunk
ChunkOwnedOnce ==
  \A c \in ChunkIds :
    /\ Len(chunk[c].poppers) <= 1
    /\ Len(chunk[c].setters) <= 1
    /\ chunk[c].setters # <<>> => chunk[c].setters = chunk[c].poppers
    /\ chunk[c].state = "Fulfilled" <=> Len(chunk[c].setters) = 1
    /\ chunk[c].state \in {"Unpartitioned", "Pushed"} => chunk[c].poppers = <<>>
    /\ Cardinality(Processing(c)) <= 1

\* C6: a chunk only moves Unpartitioned -> Pushed -> InProgress -> Fulfilled;
\* it is popped by at most one thread, its promise is set at most once and
\* only by the thread that popped it, a fulfilled chunk was set exactly once,
\* and no two calls of sort_chunk work on the same chunk.
C6_ChunkLifecycle ==
  /\ []ChunkOwnedOnce
  /\ [][\A c \in ChunkIds :
          chunk'[c].state # chunk[c].state =>
            <<chunk[c].state, chunk'[c].state>> \in ChunkMoves]_vars

\* one chunk was popped and fulfilled by a worker, another by the caller
C6_Witness ==
  \E c, d \in ChunkIds :
    /\ SetByWorker(c)
    /\ SetByCaller(d)
    /\ chunk[c].poppers = chunk[c].setters
    /\ chunk[d].poppers = chunk[d].setters

\* the calls that have returned
Done == {k \in 1..Len(ops) : ops[k].res # 0}

ReturnedBy(x) == {k \in Done : ops[k].op = "pop" /\ ops[k].val = Value(x)}

InStack(x) == {i \in 1..Len(s_) : s_[i] = x}

\* a pushed element is in the stack or was returned by one pop, never both
Conserved ==
  \A k \in Done :
    ops[k].op = "push" =>
      /\ Cardinality(ReturnedBy(ops[k].arg)) <= 1
      /\ Cardinality(ReturnedBy(ops[k].arg)) + Cardinality(InStack(ops[k].arg)) = 1

\* the result a LIFO stack st gives the call o, and the stack it leaves
SeqResult(o, st) ==
  CASE o.op = "push"  -> Void
    [] o.op = "empty" -> Bool(st = <<>>)
    [] o.op = "pop"   -> IF st = <<>> THEN Thrown ELSE Value(st[Len(st)])

SeqAfter(o, st) ==
  CASE o.op = "push"  -> Append(st, o.arg)
    [] o.op = "empty" -> st
    [] o.op = "pop"   -> IF st = <<>> THEN st ELSE SubSeq(st, 1, Len(st) - 1)

\* the calls in rest can be run one at a time from stack st, each giving the
\* result it gave, no call placed after one it had returned before
RECURSIVE Linearizes(_, _)
Linearizes(rest, st) ==
  \/ rest = {}
  \/ \E k \in rest :
       /\ \A j \in rest : ~(ops[j].res < ops[k].inv)
       /\ SeqResult(ops[k], st) = ops[k].val
       /\ Linearizes(rest \ {k}, SeqAfter(ops[k], st))

Quiescent == \A t \in Clients : hpc[t] = "idle"

\* C7: whatever the interleaving of the clients' push, pop and empty calls,
\* no pushed element is returned by two pops, every pushed element is still
\* in the stack or was returned by exactly one pop, and once all calls have
\* returned, their results are those of the calls run one at a time in some
\* order that keeps every call that returned before another was invoked
\* ahead of it, on a LIFO stack.
C7_StackExactlyOnceLinearizable ==
  /\ Conserved
  /\ Quiescent => Linearizes(Done, <<>>)

\* two clients' calls overlapped in time, a pop among them returned an element
C7_Witness ==
  /\ Quiescent
  /\ \E a, b \in Done :
       /\ ops[a].t # ops[b].t
       /\ ops[a].inv < ops[b].res
       /\ ops[b].inv < ops[a].res
       /\ ops[a].op = "pop"
       /\ ops[a].val[1] = "value"
       /\ ops[b].op \in {"push", "pop"}

\* C8: when the call has ended, by return or by exception, end_of_data is set
\* and every worker that was spawned has left sort_thread and has been joined
\* exactly once.
C8_WorkersJoinedAtEnd ==
  (outcome \in {"returned", "threw"} /\ session # "none") =>
    /\ end_of_data
    /\ \A w \in Spawned : wstate[w] = "exited" /\ joins[w] = 1

\* C9: the number of spawned workers never exceeds max_thread_count.
C9_WorkersWithinCap ==
  session = "live" =>
    /\ SizeLeq(threads.size, max_thread_count)
    /\ SizeLeq(Cardinality(Spawned), max_thread_count)

\* C10: for an empty input no sorter is constructed, no chunk is pushed, no
\* worker is spawned, and the call returns the empty list.
C10_EmptyInputNoSession ==
  input = <<>> =>
    /\ session = "none"
    /\ nchunks = 0
    /\ chunks = <<>>
    /\ Spawned = {}
    /\ outcome \in {"running", "returned"}
    /\ outcome = "returned" => result = <<>>

\* the call on the empty list has returned
C10_Witness ==
  /\ input = <<>>
  /\ outcome = "returned"

\* C11: a call that ends either returns an ordered permutation of the input
\* or lets an exception out to its caller; no error of any thread has another
\* destination, so the process is never ended by std::terminate.
C11_ReturnsSortedOrThrowsToCaller ==
  /\ outcome = "returned" => (Sorted(result) /\ SameElements(result, input))
  /\ outcome # "aborted"

\* C12: a worker leaves sort_thread only after end_of_data has been set,
\* whether it leaves by the loop test or by an exception.
C12_WorkerLeavesOnlyAfterStop ==
  /\ \A w \in Workers : wstate[w] = "exited" => end_of_data
  /\ (outcome = "aborted" /\ error \in {"EmptyStack", "broken_promise"})
        => end_of_data

\* the step of thread t out of the entry of do_sort
EntersDoSort(t) ==
  /\ At(t, "do_sort", "enter")
  /\ stack'[t] # stack[t]

\* the step neither pushes a chunk, nor spawns, nor calls: it returns
ReturnsAtOnce(t) ==
  /\ nchunks' = nchunks
  /\ chunks' = chunks
  /\ threads' = threads
  /\ Len(stack'[t]) < Len(stack[t])

\* C13 as stated: do_sort on a list of zero or one element returns at once,
\* pushing no chunk, spawning no worker and making no recursive call.
C13_ShortListIsBaseCase ==
  [][\A t \in Threads :
       (EntersDoSort(t) /\ Len(Top(t).v) <= 1) => ReturnsAtOnce(t)]_vars

\* C13: only the empty list is a base case.  do_sort on the empty list
\* returns at once; on any other list, a single element included, it pushes
\* one chunk and goes on to the size test, and for a single element the
\* chunk's data and the rest are both empty.  A list of at most one element
\* is still returned unchanged, by a chunk and by the whole call.
C13_OnlyEmptyListIsBaseCase ==
  /\ [](\A c \in ChunkIds :
          (chunk[c].state = "Fulfilled" /\ Len(chunk[c].data) <= 1)
             => chunk[c].value = chunk[c].data)
  /\ []((outcome = "returned" /\ Len(input) <= 1) => result = input)
  /\ [][\A t \in Threads :
          EntersDoSort(t) =>
            IF Top(t).v = <<>>
            THEN ReturnsAtOnce(t)
            ELSE /\ nchunks' = nchunks + 1
                 /\ chunks' = Append(chunks, nchunks')
                 /\ chunk'[nchunks'].state = "Pushed"
                 /\ Len(stack'[t]) = Len(stack[t])
                 /\ stack'[t][Len(stack[t])].pc = "size"
                 /\ Len(Top(t).v) = 1 =>
                      /\ chunk'[nchunks'].data = <<>>
                      /\ stack'[t][Len(stack[t])].v = <<>>]_vars

\* a one-element input was returned unchanged after its one chunk, with
\* empty data, had been pushed and fulfilled
C13_Witness ==
  /\ outcome = "returned"
  /\ Len(input) = 1
  /\ result = input
  /\ nchunks = 1
  /\ chunk[1].data = <<>>
  /\ chunk[1].state = "Fulfilled"

\* C14: the future of a chunk is read at most once, only by the thread that
\* pushed the chunk and only when the chunk is Fulfilled; the read is made
\* by that thread's do_sort at its poll of this chunk's future; and when the
\* call has returned, every chunk's future has been read exactly once.
C14_FutureReadOnceByPusherAfterFulfilled ==
  /\ [](\A c \in ChunkIds :
          /\ Len(chunk[c].getters) <= 1
          /\ chunk[c].getters # <<>> =>
               /\ chunk[c].getters = <<chunk[c].pusher>>
               /\ chunk[c].state = "Fulfilled")
  /\ [](outcome = "returned" =>
          \A c \in 1..nchunks : Len(chunk[c].getters) = 1)
  /\ [][\A c \in ChunkIds :
          chunk'[c].getters # chunk[c].getters =>
            /\ chunk[c].state = "Fulfilled"
            /\ At(chunk[c].pusher, "do_sort", "wait")
            /\ Top(chunk[c].pusher).l = c]_vars

\* a chunk fulfilled by a worker was read by the thread that pushed it, and
\* a chunk pushed by a worker was read by that worker
C14_Witness ==
  /\ \E c \in ChunkIds :
       SetByWorker(c) /\ chunk[c].getters = <<chunk[c].pusher>>
  /\ \E c \in ChunkIds :
       chunk[c].pusher \in Workers /\ chunk[c].getters = <<chunk[c].pusher>>

\* C15: end_of_data never goes back to false, it is set only by ~sorter, and
\* at the step that sets it no chunk is Pushed or InProgress.
C15_StopFlagSetOnlyWhenNoChunkInFlight ==
  [][/\ end_of_data => end_of_data'
     /\ (~end_of_data /\ end_of_data') =>
          /\ At(Caller, "parallel_quick_sort", "dtor")
          /\ \A c \in ChunkIds :
               chunk[c].state \notin {"Pushed", "InProgress"}]_vars

\* C16: max_thread_count is hardware_concurrency() - 1 floored at zero.
C16_CapIsFlooredAtZero ==
  session # "none" =>
    max_thread_count =
      Unsigned(IF hardware_concurrency >= 1 THEN hardware_concurrency - 1
               ELSE 0)

\* the frame of t's innermost call after the step
TopAfter(t) == stack'[t][Len(stack'[t])]

\* every element of s is less than x / no element of s is less than x
AllLess(s, x)  == \A i \in 1..Len(s) : s[i] < x
NoneLess(s, x) == \A i \in 1..Len(s) : ~(s[i] < x)

\* the do_sort frames that hold a pivot, a pushed chunk and a rest still to
\* be sorted by the recursive call
Partitioned ==
  UNION { { stack[t][k] : k \in { j \in DOMAIN stack[t] :
                                    /\ stack[t][j].fn = "do_sort"
                                    /\ stack[t][j].pc \in
                                         {"size", "emplace", "construct"} } }
          : t \in Threads }

\* C17: one partition step of do_sort on a non-empty list takes the first
\* element as pivot and pushes exactly one chunk; the chunk's data are the
\* remaining elements less than the pivot, the rest holds the remaining
\* elements not less than it (ties included), and nothing is lost or
\* repeated.  The rest then goes to a recursive do_sort call on the same
\* thread, a step that pushes nothing; no chunk ever holds an element that
\* is not less than its pivot.
C17_PartitionStepPushesLowKeepsRest ==
  /\ [][\A t \in Threads :
          (EntersDoSort(t) /\ Top(t).v # <<>>) =>
            LET c == nchunks + 1
                f == TopAfter(t)
            IN  /\ nchunks' = c
                /\ chunks' = Append(chunks, c)
                /\ Len(stack'[t]) = Len(stack[t])
                /\ f.res = <<Head(Top(t).v)>>
                /\ f.l = c
                /\ chunk'[c].pusher = t
                /\ AllLess(chunk'[c].data, Head(Top(t).v))
                /\ NoneLess(f.v, Head(Top(t).v))
                /\ SameElements(chunk'[c].data \o f.v, Tail(Top(t).v))]_vars
  /\ [][\A t \in Threads :
          ( /\ At(t, "do_sort", "size") \/ At(t, "do_sort", "construct")
            /\ Len(stack'[t]) > Len(stack[t]) ) =>
            /\ TopAfter(t) = [Frame("do_sort", "enter") EXCEPT !.v = Top(t).v]
            /\ chunks' = chunks
            /\ nchunks' = nchunks
            /\ \A c \in ChunkIds : chunk'[c].data = chunk[c].data]_vars
  /\ [](\A f \in Partitioned :
          /\ AllLess(chunk[f.l].data, f.res[1])
          /\ NoneLess(f.v, f.res[1]))

\* a list with a tie and a smaller element was partitioned: the chunk holds
\* the smaller element, the rest holds the tie
C17_Witness ==
  \E t \in Threads :
    /\ At(t, "do_sort", "size")
    /\ Top(t).res = <<2>>
    /\ chunk[Top(t).l].data = <<1>>
    /\ Top(t).v = <<2>>

\* the calling thread is at the poll of a future (l.111) or in the loop
\* body about to pop (l.112), and the chunk it waits for is not fulfilled
CallerWaitsUnfulfilled ==
  /\ \/ At(Caller, "do_sort", "wait")
     \/ At(Caller, "do_sort", "try")
  /\ chunk[Top(Caller).l].state # "Fulfilled"

\* C18: in a session whose max_thread_count is 0, whenever the calling
\* thread is in the wait loop for a chunk not yet fulfilled, that chunk is
\* the top of the stack; every pop is made by the calling thread, from a
\* non-empty stack, and takes the chunk it waits for; no worker exists and
\* EmptyStack is never raised.
C18_SingleThreadWaiterOwnsTop ==
  /\ []((session # "none" /\ max_thread_count = Unsigned(0)) =>
          /\ CallerWaitsUnfulfilled =>
               /\ ~empty(chunks)
               /\ top(chunks) = Top(Caller).l
          /\ Spawned = {}
          /\ exc = "none"
          /\ outcome # "aborted")
  /\ [][(session # "none" /\ max_thread_count = Unsigned(0)
           /\ Len(chunks') < Len(chunks)) =>
          /\ At(Caller, "do_sort", "try")
          /\ ~empty(chunks)
          /\ top(chunks) = Top(Caller).l
          /\ chunk'[Top(Caller).l].poppers = <<Caller>>]_vars

\* single-threaded, the calling thread re-entered the wait loop in a nested
\* call with two chunks on the stack, its own on top
C18_Witness ==
  /\ max_thread_count = Unsigned(0)
  /\ At(Caller, "do_sort", "try")
  /\ Len(chunks) >= 2
  /\ top(chunks) = Top(Caller).l
  /\ \E c \in ChunkIds : chunk[c].state = "Fulfilled"

\* the threads between the size test of l.106 and the end of emplace_back
InEmplace ==
  {t \in Threads : At(t, "do_sort", "emplace") \/ At(t, "do_sort", "construct")}

\* C19: no two threads are at once between reading threads.size() and
\* completing emplace_back.
C19_RegistryAccessedByOneThread ==
  Cardinality(InEmplace) <= 1

\* the top-level do_sort call has returned normally: the calling thread is
\* in ~sorter, or past it, with no exception in flight
NormalTeardown ==
  /\ session # "none"
  /\ exc = "none"
  /\ \/ At(Caller, "parallel_quick_sort", "dtor")
     \/ At(Caller, "parallel_quick_sort", "join")
     \/ outcome = "returned"

\* the threads inside do_sort or sort_chunk
InPartitionStep ==
  {t \in Threads : \E k \in DOMAIN stack[t] :
                      stack[t][k].fn \in {"do_sort", "sort_chunk"}}

\* C20: once the top-level do_sort call has returned normally, the stack of
\* chunks is empty, every chunk pushed in the session is Fulfilled and its
\* future has been read, and no thread is inside do_sort or sort_chunk; this
\* stays so from teardown on, so no chunk is pushed or popped any more.
C20_NormalReturnLeavesNothingPending ==
  /\ [](NormalTeardown =>
          /\ empty(chunks)
          /\ \A c \in 1..nchunks :
               /\ chunk[c].state = "Fulfilled"
               /\ Len(chunk[c].getters) = 1
          /\ \A c \in ChunkIds : c > nchunks => chunk[c] = NoChunk
          /\ InPartitionStep = {})
  /\ [][NormalTeardown =>
          /\ NormalTeardown'
          /\ chunks' = chunks
          /\ nchunks' = nchunks
          /\ chunk' = chunk]_vars

\* the call returned normally after three chunks, one of them sorted by a
\* worker, and the worker was still running when teardown began
C20_Witness ==
  /\ At(Caller, "parallel_quick_sort", "dtor")
  /\ exc = "none"
  /\ nchunks = 3
  /\ \E c \in ChunkIds : SetByWorker(c)
  /\ \E w \in Workers : wstate[w] = "running"

====
